---- MODULE Spec2Model ----
(***************************************************************************)
(* Model of src/types/object.rs: the Object record (two timestamps, a Cid  *)
(* link, a serde_json::Value), its Default constructor, its update method  *)
(* and its Blockable implementation (to_ipld / from_ipld).                 *)
(*                                                                         *)
(* Texts are sequences of one-character strings.  Timestamps are scaled:   *)
(* a second has NanosPerSecond nanoseconds and OffsetDateTime covers the   *)
(* seconds MinSeconds..MaxSeconds.  JSON numbers with a fraction or an     *)
(* exponent (f64) are outside the model: no modelled Value and no          *)
(* modelled text holds one.                                                *)
(***************************************************************************)
EXTENDS Integers, Sequences, FiniteSets, TLC

VARIABLES obj, clock, origin, skewed, call

vars == <<obj, clock, origin, skewed, call>>

(***************************************************************************)
(* Bounds                                                                  *)
(***************************************************************************)
MaxSeconds == 1
MaxStrLen == 1

(* the scaled units of time::OffsetDateTime, which also reaches before the epoch *)
NanosPerSecond == 2
MinSeconds == -1

(***************************************************************************)
(* serde_json::Value                                                       *)
(***************************************************************************)
Null == [t |-> "null"]
Bool(b) == [t |-> "bool", b |-> b]
Number(n) == [t |-> "num", n |-> n]
NegZero == [t |-> "float", f |-> "-0.0"]
String(s) == [t |-> "str", s |-> s]
Array(a) == [t |-> "arr", a |-> a]
Object(o) == [t |-> "obj", o |-> o]

QUOTE == "\""
BACKSLASH == "\\"

Digits == <<"0", "1", "2", "3", "4", "5", "6", "7", "8", "9">>
DigitChars == {Digits[i] : i \in 1..10}
DigitVal(c) == (CHOOSE i \in 1..10 : Digits[i] = c) - 1

(* byte order of the characters that occur in modelled object keys *)
CharCode(c) ==
  CASE c = QUOTE -> 34
    [] c = BACKSLASH -> 92
    [] c = "a" -> 97
    [] c = "b" -> 98
    [] OTHER -> 0

RECURSIVE StrLess(_, _)
StrLess(a, b) ==
  IF b = <<>> THEN FALSE
  ELSE IF a = <<>> THEN TRUE
  ELSE IF Head(a) = Head(b) THEN StrLess(Tail(a), Tail(b))
  ELSE CharCode(Head(a)) < CharCode(Head(b))

(* the keys of a BTreeMap<String, Value> in iteration order *)
RECURSIVE SortedKeys(_)
SortedKeys(ks) ==
  IF ks = {} THEN <<>>
  ELSE LET k == CHOOSE x \in ks : \A y \in ks \ {x} : StrLess(x, y)
       IN <<k>> \o SortedKeys(ks \ {k})

RECURSIVE FormatUnsigned(_)
FormatUnsigned(n) ==
  IF n < 10 THEN <<Digits[n + 1]>>
  ELSE FormatUnsigned(n \div 10) \o <<Digits[(n % 10) + 1]>>

FormatInt(n) == IF n < 0 THEN <<"-">> \o FormatUnsigned(0 - n) ELSE FormatUnsigned(n)

(* mutant of EscapeStr: a backslash is written as it is *)
RECURSIVE EscapeStrQuoteOnly(_)
EscapeStrQuoteOnly(s) ==
  IF s = <<>> THEN <<>>
  ELSE (IF Head(s) = QUOTE THEN <<BACKSLASH, QUOTE>> ELSE <<Head(s)>>)
         \o EscapeStrQuoteOnly(Tail(s))

RECURSIVE EscapeStr(_)
EscapeStr(s) ==
  IF s = <<>> THEN <<>>
  ELSE LET c == Head(s)
       IN (IF c = QUOTE THEN <<BACKSLASH, QUOTE>>
           ELSE IF c = BACKSLASH THEN <<BACKSLASH, BACKSLASH>>
           ELSE <<c>>) \o EscapeStr(Tail(s))

FormatStr(s) == <<QUOTE>> \o EscapeStr(s) \o <<QUOTE>>

(* Value::to_string: compact JSON text *)
RECURSIVE to_string(_)
RECURSIVE FormatElems(_)
RECURSIVE FormatMembers(_, _)

FormatElems(a) ==
  IF a = <<>> THEN <<>>
  ELSE to_string(Head(a)) \o
       (IF Tail(a) = <<>> THEN <<>> ELSE <<",">> \o FormatElems(Tail(a)))

FormatMembers(o, ks) ==
  IF ks = <<>> THEN <<>>
  ELSE FormatStr(Head(ks)) \o <<":">> \o to_string(o[Head(ks)]) \o
       (IF Tail(ks) = <<>> THEN <<>> ELSE <<",">> \o FormatMembers(o, Tail(ks)))

to_string(v) ==
  CASE v.t = "null" -> <<"n", "u", "l", "l">>
    [] v.t = "bool" -> IF v.b THEN <<"t", "r", "u", "e">> ELSE <<"f", "a", "l", "s", "e">>
    [] v.t = "num" -> FormatInt(v.n)
    [] v.t = "float" -> <<"-", "0", ".", "0">>
    [] v.t = "str" -> FormatStr(v.s)
    [] v.t = "arr" -> <<"[">> \o FormatElems(v.a) \o <<"]">>
    [] v.t = "obj" -> <<"{">> \o FormatMembers(v.o, SortedKeys(DOMAIN v.o)) \o <<"}">>

(***************************************************************************)
(* serde_json::from_str                                                    *)
(***************************************************************************)
ParseFail == [ok |-> FALSE]
ParseOk(v, rest) == [ok |-> TRUE, val |-> v, rest |-> rest]

RECURSIVE SkipWs(_)
SkipWs(s) == IF s # <<>> /\ Head(s) = " " THEN SkipWs(Tail(s)) ELSE s

ParseLit(s, lit, v) ==
  IF Len(s) >= Len(lit) /\ SubSeq(s, 1, Len(lit)) = lit
  THEN ParseOk(v, SubSeq(s, Len(lit) + 1, Len(s)))
  ELSE ParseFail

(* s follows the opening quote; acc is the string read so far *)
RECURSIVE ParseStrBody(_, _)
ParseStrBody(s, acc) ==
  IF s = <<>> THEN ParseFail
  ELSE IF Head(s) = QUOTE THEN ParseOk(acc, Tail(s))
  ELSE IF Head(s) = BACKSLASH
       THEN IF Len(s) >= 2 /\ s[2] \in {QUOTE, BACKSLASH, "/"}
            THEN ParseStrBody(SubSeq(s, 3, Len(s)), acc \o <<s[2]>>)
            ELSE ParseFail
  ELSE ParseStrBody(Tail(s), acc \o <<Head(s)>>)

RECURSIVE ParseDigits(_, _)
ParseDigits(s, acc) ==
  IF s # <<>> /\ Head(s) \in DigitChars
  THEN ParseDigits(Tail(s), acc * 10 + DigitVal(Head(s)))
  ELSE ParseOk(acc, s)

(* s starts with "-" or a digit *)
ParseNumber(s) ==
  LET neg == Head(s) = "-"
      s1 == IF neg THEN Tail(s) ELSE s
  IN IF s1 = <<>> \/ Head(s1) \notin DigitChars THEN ParseFail
     ELSE IF Head(s1) = "0"
          THEN IF Len(s1) >= 2 /\ s1[2] \in DigitChars THEN ParseFail
               ELSE ParseOk(IF neg THEN NegZero ELSE Number(0), Tail(s1))
     ELSE LET d == ParseDigits(s1, 0)
          IN ParseOk(Number(IF neg THEN 0 - d.val ELSE d.val), d.rest)

MapInsert(o, k, v) == [x \in DOMAIN o \cup {k} |-> IF x = k THEN v ELSE o[x]]

RECURSIVE ParseValue(_)
RECURSIVE ParseElems(_, _)
RECURSIVE ParseMembers(_, _)

ParseElems(s, acc) ==
  LET r == ParseValue(s)
  IN IF ~r.ok THEN ParseFail
     ELSE LET s2 == SkipWs(r.rest)
          IN IF s2 = <<>> THEN ParseFail
             ELSE IF Head(s2) = "," THEN ParseElems(Tail(s2), acc \o <<r.val>>)
             ELSE IF Head(s2) = "]" THEN ParseOk(Array(acc \o <<r.val>>), Tail(s2))
             ELSE ParseFail

ParseMembers(s, acc) ==
  LET s1 == SkipWs(s)
  IN IF s1 = <<>> \/ Head(s1) # QUOTE THEN ParseFail
     ELSE LET k == ParseStrBody(Tail(s1), <<>>)
          IN IF ~k.ok THEN ParseFail
             ELSE LET s2 == SkipWs(k.rest)
                  IN IF s2 = <<>> \/ Head(s2) # ":" THEN ParseFail
                     ELSE LET v == ParseValue(Tail(s2))
                          IN IF ~v.ok THEN ParseFail
                             ELSE LET s3 == SkipWs(v.rest)
                                      o == MapInsert(acc, k.val, v.val)
                                  IN IF s3 = <<>> THEN ParseFail
                                     ELSE IF Head(s3) = "," THEN ParseMembers(Tail(s3), o)
                                     ELSE IF Head(s3) = "}" THEN ParseOk(Object(o), Tail(s3))
                                     ELSE ParseFail

ParseValue(s) ==
  LET s1 == SkipWs(s)
  IN IF s1 = <<>> THEN ParseFail
     ELSE LET c == Head(s1)
          IN CASE c = "n" -> ParseLit(s1, <<"n", "u", "l", "l">>, Null)
               [] c = "t" -> ParseLit(s1, <<"t", "r", "u", "e">>, Bool(TRUE))
               [] c = "f" -> ParseLit(s1, <<"f", "a", "l", "s", "e">>, Bool(FALSE))
               [] c = QUOTE ->
                    LET r == ParseStrBody(Tail(s1), <<>>)
                    IN IF r.ok THEN ParseOk(String(r.val), r.rest) ELSE ParseFail
               [] c = "-" \/ c \in DigitChars -> ParseNumber(s1)
               [] c = "[" ->
                    LET s2 == SkipWs(Tail(s1))
                    IN IF s2 # <<>> /\ Head(s2) = "]" THEN ParseOk(Array(<<>>), Tail(s2))
                       ELSE ParseElems(s2, <<>>)
               [] c = "{" ->
                    LET s2 == SkipWs(Tail(s1))
                    IN IF s2 # <<>> /\ Head(s2) = "}" THEN ParseOk(Object(<<>>), Tail(s2))
                       ELSE ParseMembers(s2, <<>>)
               [] OTHER -> ParseFail

(* the whole text must be one value, with blanks allowed around it *)
from_str(s) ==
  LET r == ParseValue(s)
  IN IF r.ok /\ SkipWs(r.rest) = <<>> THEN [ok |-> TRUE, val |-> r.val] ELSE [ok |-> FALSE]

(***************************************************************************)
(* time::OffsetDateTime (UTC): whole seconds since the Unix epoch and the  *)
(* nanosecond within the second                                            *)
(***************************************************************************)
DateTime(secs, nanosecond) == [secs |-> secs, nanosecond |-> nanosecond]
DateTimes == {DateTime(s, n) : s \in MinSeconds..MaxSeconds, n \in 0..(NanosPerSecond - 1)}

unix_timestamp_nanos(dt) == dt.secs * NanosPerSecond + dt.nanosecond

(* mutant of from_unix_timestamp_nanos: no upper end of the range *)
from_unix_timestamp_nanos_unbounded(ts) ==
  IF ts \div NanosPerSecond < MinSeconds THEN [ok |-> FALSE]
  ELSE [ok |-> TRUE, dt |-> [secs |-> ts \div NanosPerSecond, nanosecond |-> ts % NanosPerSecond]]

(* Err(ComponentRange) when the seconds fall outside the supported range *)
from_unix_timestamp_nanos(ts) ==
  LET secs == ts \div NanosPerSecond
      nanosecond == ts % NanosPerSecond
  IN IF secs < MinSeconds \/ secs > MaxSeconds THEN [ok |-> FALSE]
     ELSE [ok |-> TRUE, dt |-> DateTime(secs, nanosecond)]

(* the order of OffsetDateTime: by instant *)
DtLess(a, b) == a.secs < b.secs \/ (a.secs = b.secs /\ a.nanosecond < b.nanosecond)
DtLeq(a, b) == ~DtLess(b, a)

MinNanos == MinSeconds * NanosPerSecond
MaxNanos == MaxSeconds * NanosPerSecond + (NanosPerSecond - 1)

(***************************************************************************)
(* Cid and libipld::Ipld                                                   *)
(***************************************************************************)
DefaultCid == "cid_default"
Cids == {DefaultCid, "cid_b"}

IpldNull == [kind |-> "Null"]
IpldInteger(n) == [kind |-> "Integer", int |-> n]
IpldString(s) == [kind |-> "String", str |-> s]
IpldLink(c) == [kind |-> "Link", cid |-> c]
IpldList(l) == [kind |-> "List", list |-> l]
IpldMap(m) == [kind |-> "Map", map |-> m]

OBJECT_CREATED_AT_LABEL == "created_at"
OBJECT_UPDATED_AT_LABEL == "updated_at"
OBJECT_DATA_LABEL == "data"
OBJECT_METADATA_LABEL == "metadata"
Labels ==
  {OBJECT_CREATED_AT_LABEL, OBJECT_UPDATED_AT_LABEL, OBJECT_DATA_LABEL, OBJECT_METADATA_LABEL}

(* mutant of MapGet: an absent entry reads as the integer 0 *)
MapGetOrZero(map, key) == IF key \in DOMAIN map THEN map[key] ELSE IpldInteger(0)

(* BTreeMap::get: the entry, or None *)
None == [kind |-> "None"]
MapGet(map, key) == IF key \in DOMAIN map THEN map[key] ELSE None

(***************************************************************************)
(* Object                                                                  *)
(***************************************************************************)
ObjectStruct(created_at, updated_at, data, metadata) ==
  [created_at |-> created_at, updated_at |-> updated_at, data |-> data, metadata |-> metadata]

NoObject == [none |-> TRUE]

(* ObjectIpldError *)
InvalidDateTime == [e |-> "InvalidDateTime"]
MissingMapMember(label) == [e |-> "MissingMapMember", member |-> label]
SerdeJson == [e |-> "SerdeJson"]
NotMap == [e |-> "NotMap"]

Ok(o) == [ok |-> TRUE, obj |-> o]
Err(e) == [ok |-> FALSE, err |-> e]

(* mutant of default: the two readings land in each other's field *)
default_swapped(now1, now2) ==
  [created_at |-> now2, updated_at |-> now1, data |-> DefaultCid, metadata |-> Null]

(* Default::default, given the two readings of OffsetDateTime::now_utc *)
default(now1, now2) == ObjectStruct(now1, now2, DefaultCid, Null)

(* mutant of to_ipld: updated_at carries created_at *)
to_ipld_created_twice(self) ==
  IpldMap(
    [k \in Labels |->
       CASE k = OBJECT_CREATED_AT_LABEL -> IpldInteger(unix_timestamp_nanos(self.created_at))
         [] k = OBJECT_UPDATED_AT_LABEL -> IpldInteger(unix_timestamp_nanos(self.created_at))
         [] k = OBJECT_DATA_LABEL -> IpldLink(self.data)
         [] k = OBJECT_METADATA_LABEL -> IpldString(to_string(self.metadata))])

to_ipld(self) ==
  IpldMap(
    [k \in Labels |->
       CASE k = OBJECT_CREATED_AT_LABEL -> IpldInteger(unix_timestamp_nanos(self.created_at))
         [] k = OBJECT_UPDATED_AT_LABEL -> IpldInteger(unix_timestamp_nanos(self.updated_at))
         [] k = OBJECT_DATA_LABEL -> IpldLink(self.data)
         [] k = OBJECT_METADATA_LABEL -> IpldString(to_string(self.metadata))])

(* mutant of from_ipld: the four wire types are checked before any value *)
from_ipld_types_first(ipld) ==
  IF ipld.kind # "Map" THEN Err(NotMap)
  ELSE
  LET map == ipld.map
      c == MapGet(map, OBJECT_CREATED_AT_LABEL)
      u == MapGet(map, OBJECT_UPDATED_AT_LABEL)
      d == MapGet(map, OBJECT_DATA_LABEL)
      m == MapGet(map, OBJECT_METADATA_LABEL)
  IN IF c.kind # "Integer" THEN Err(MissingMapMember(OBJECT_CREATED_AT_LABEL))
     ELSE IF u.kind # "Integer" THEN Err(MissingMapMember(OBJECT_UPDATED_AT_LABEL))
     ELSE IF d.kind # "Link" THEN Err(MissingMapMember(OBJECT_DATA_LABEL))
     ELSE IF m.kind # "String" THEN Err(MissingMapMember(OBJECT_METADATA_LABEL))
     ELSE IF ~from_unix_timestamp_nanos(c.int).ok \/ ~from_unix_timestamp_nanos(u.int).ok
          THEN Err(InvalidDateTime)
     ELSE IF ~from_str(m.str).ok THEN Err(SerdeJson)
     ELSE Ok(ObjectStruct(from_unix_timestamp_nanos(c.int).dt,
                          from_unix_timestamp_nanos(u.int).dt, d.cid, from_str(m.str).val))

from_ipld(ipld) ==
  IF ipld.kind # "Map" THEN Err(NotMap)
  ELSE
  LET map == ipld.map
      c == MapGet(map, OBJECT_CREATED_AT_LABEL)
  IN IF c.kind # "Integer" THEN Err(MissingMapMember(OBJECT_CREATED_AT_LABEL))
  ELSE
  LET created_at == from_unix_timestamp_nanos(c.int)
  IN IF ~created_at.ok THEN Err(InvalidDateTime)
  ELSE
  LET u == MapGet(map, OBJECT_UPDATED_AT_LABEL)
  IN IF u.kind # "Integer" THEN Err(MissingMapMember(OBJECT_UPDATED_AT_LABEL))
  ELSE
  LET updated_at == from_unix_timestamp_nanos(u.int)
  IN IF ~updated_at.ok THEN Err(InvalidDateTime)
  ELSE
  LET d == MapGet(map, OBJECT_DATA_LABEL)
  IN IF d.kind # "Link" THEN Err(MissingMapMember(OBJECT_DATA_LABEL))
  ELSE
  LET m == MapGet(map, OBJECT_METADATA_LABEL)
  IN IF m.kind # "String" THEN Err(MissingMapMember(OBJECT_METADATA_LABEL))
  ELSE
  LET metadata == from_str(m.str)
  IN IF ~metadata.ok THEN Err(SerdeJson)
  ELSE Ok(ObjectStruct(created_at.dt, updated_at.dt, d.cid, metadata.val))

(* mutant of update: created_at is refreshed too *)
update_touching_created(self, now, data, metadata) ==
  [self EXCEPT !.created_at = now,
               !.updated_at = now,
               !.data = IF data = None THEN @ ELSE data.some,
               !.metadata = IF metadata = None THEN @ ELSE metadata.some]

(* mutant of update: an absent data argument resets the link *)
update_defaulting_data(self, now, data, metadata) ==
  [self EXCEPT !.updated_at = now,
               !.data = IF data = None THEN DefaultCid ELSE data.some,
               !.metadata = IF metadata = None THEN @ ELSE metadata.some]

(* Object::update, given the reading of OffsetDateTime::now_utc; an absent *)
(* argument is None                                                        *)
update(self, now, data, metadata) ==
  [self EXCEPT !.updated_at = now,
               !.data = IF data = None THEN @ ELSE data.some,
               !.metadata = IF metadata = None THEN @ ELSE metadata.some]

Some(x) == [kind |-> "Some", some |-> x]

(***************************************************************************)
(* Input sets                                                              *)
(***************************************************************************)
Chars == {"a", QUOTE, BACKSLASH}

RECURSIVE StrsUpTo(_)
StrsUpTo(n) ==
  IF n = 0 THEN {<<>>}
  ELSE LET shorter == StrsUpTo(n - 1)
       IN shorter \cup {s \o <<c>> : s \in {x \in shorter : Len(x) = n - 1}, c \in Chars}

Strs == StrsUpTo(MaxStrLen)
NumberSamples == {0 - 12, 0 - 1, 0, 7, 10}
KeySamples == {<<"a">>, <<QUOTE>>, <<"a", "b">>}

Leaves ==
  {Null, Bool(TRUE), Bool(FALSE)} \cup {Number(n) : n \in NumberSamples}
    \cup {String(s) : s \in Strs}
Inner == {Null, Number(0 - 1), String(<<QUOTE>>)}
Arrays ==
  {Array(<<>>), Array(<<Array(<<Null>>)>>), Array(<<Object(<<"a">> :> Number(7))>>)}
    \cup {Array(<<x>>) : x \in Inner} \cup {Array(<<x, y>>) : x, y \in Inner}
Objects ==
  {Object(<<>>), Object(<<"a">> :> Array(<<Number(10)>>)),
   Object(<<"b">> :> Object(<<"a">> :> Null))}
    \cup {Object(k :> v) : k \in KeySamples, v \in Inner}
    \cup {Object((k1 :> Null) @@ (k2 :> Bool(TRUE))) : k1, k2 \in KeySamples}
Values == Leaves \cup Arrays \cup Objects

(* texts that are not the output of to_string: malformed, or with blanks *)
BadTexts ==
  {<<>>, <<"{", "n", "o", "t", " ", "j", "s", "o", "n">>, <<"n", "u", "l">>,
   <<"[", "1", ",", "]">>, <<"0", "1">>, <<"n", "u", "l", "l", "x">>,
   <<QUOTE, "a">>, <<"{", QUOTE, "a", QUOTE, "}">>}
SpacedTexts == {<<" ", "{", " ", "}", " ">>, <<"[", " ", "1", " ", ",", "7", "]">>}
MetaTexts == {to_string(v) : v \in Values} \cup BadTexts \cup SpacedTexts

WireInts == (MinNanos - 1)..(MaxNanos + 1)
IntNodes == {IpldInteger(n) : n \in WireInts}
LinkNodes == {IpldLink(c) : c \in Cids}
NullText == <<"n", "u", "l", "l">>

EXTRA_LABEL == "extra"
MkMap(c, u, d, m, x) ==
  LET f == [k \in Labels \cup {EXTRA_LABEL} |->
              CASE k = OBJECT_CREATED_AT_LABEL -> c
                [] k = OBJECT_UPDATED_AT_LABEL -> u
                [] k = OBJECT_DATA_LABEL -> d
                [] k = OBJECT_METADATA_LABEL -> m
                [] OTHER -> x]
  IN IpldMap([k \in {l \in DOMAIN f : f[l] # None} |-> f[k]])

(* maps whose entries are drawn from the given sets; None is an absent key *)
WireMaps(C, U, D, M, X) ==
  {MkMap(c, u, d, m, x) : c \in C, u \in U, d \in D, m \in M, x \in X}

TsFull == IntNodes \cup {None, IpldString(<<"0">>), IpldLink(DefaultCid), IpldNull}
TsFew == {IpldInteger(0), IpldInteger(MaxNanos + 1), None, IpldString(<<"0">>)}
DataFull == LinkNodes \cup {None, IpldString(<<"a">>), IpldInteger(0)}
DataFew == {IpldLink("cid_b"), None, IpldString(<<"a">>)}
MetaFull == {IpldString(s) : s \in MetaTexts} \cup {None, IpldInteger(0), IpldLink(DefaultCid)}
NotJson == <<"{", "n", "o", "t", " ", "j", "s", "o", "n">>
MetaFew == {IpldString(NullText), IpldString(NotJson), None, IpldInteger(0)}
ExtraFull == {None, IpldInteger(0)}

NonMaps ==
  {IpldNull, IpldInteger(0), IpldString(NullText), IpldLink(DefaultCid), IpldList(<<>>),
   IpldList(<<IpldMap(<<>>)>>)}

WireInputs ==
  NonMaps \cup WireMaps(TsFull, TsFull, DataFull, MetaFew, ExtraFull)
    \cup WireMaps(TsFew, TsFew, DataFew, MetaFull, ExtraFull)

AllObjects ==
  {ObjectStruct(c, u, d, m) : c \in DateTimes, u \in DateTimes, d \in Cids, m \in Values}

(* what the record life cycle is fed *)
UpdateCids == {"cid_b"}
UpdateValues == {String(<<"a", QUOTE>>), Object(<<"a">> :> Number(7))}
ForeignInts == {0, MaxNanos, MaxNanos + 1}
ForeignWires ==
  WireMaps({IpldInteger(n) : n \in ForeignInts}, {IpldInteger(n) : n \in ForeignInts},
           {IpldLink(DefaultCid), None},
           {IpldString(to_string(v)) : v \in UpdateValues},
           {None})

(***************************************************************************)
(* Actions.  call is the last call made: its name, arguments and return    *)
(* value.  origin is the constructor that built obj; skewed records that   *)
(* the wall clock has read earlier than its previous reading since then.   *)
(***************************************************************************)
NoCall == [name |-> "none"]

(* Object::default(): two readings of the wall clock *)
Default ==
  \E now1, now2 \in DateTimes :
    /\ obj' = default(now1, now2)
    /\ clock' = now2
    /\ origin' = "default"
    /\ skewed' = DtLess(now2, now1)
    /\ call' = [name |-> "default"]

(* obj.update(data, metadata): one reading of the wall clock *)
Update ==
  /\ obj # NoObject
  /\ \E now \in DateTimes, d \in {None} \cup {Some(c) : c \in UpdateCids},
        m \in {None} \cup {Some(v) : v \in UpdateValues} :
       /\ obj' = update(obj, now, d, m)
       /\ clock' = now
       /\ skewed' = (skewed \/ DtLess(now, clock))
       /\ call' = [name |-> "update", data |-> d, metadata |-> m]
  /\ UNCHANGED origin

(* obj.to_ipld() *)
ToIpld ==
  /\ obj # NoObject
  /\ call' = [name |-> "to_ipld", ret |-> to_ipld(obj)]
  /\ UNCHANGED <<obj, clock, origin, skewed>>

(* mutant of FromIpld: a map with any key besides the four is refused *)
FromIpldExactKeys(ipld) ==
  LET ret == IF ipld.kind = "Map" /\ ~(DOMAIN ipld.map \subseteq Labels)
             THEN Err(NotMap) ELSE from_ipld(ipld)
  IN /\ call' = [name |-> "from_ipld", ipld |-> ipld, ret |-> ret]
     /\ obj' = IF ret.ok THEN ret.obj ELSE NoObject
     /\ origin' = "from_ipld"
     /\ skewed' = FALSE
     /\ UNCHANGED clock

(* Object::from_ipld(&ipld): the Object returned replaces obj; on an error *)
(* there is no Object                                                      *)
FromIpld(ipld) ==
  LET ret == from_ipld(ipld)
  IN /\ call' = [name |-> "from_ipld", ipld |-> ipld, ret |-> ret]
     /\ obj' = IF ret.ok THEN ret.obj ELSE NoObject
     /\ origin' = "from_ipld"
     /\ skewed' = FALSE
     /\ UNCHANGED clock

(* decode the map just encoded *)
Decode == call.name = "to_ipld" /\ FromIpld(call.ret)

(* decode a map that comes from elsewhere *)
DecodeForeign == \E ipld \in ForeignWires : FromIpld(ipld)

(* decode the value received *)
DecodeReceived == call.name = "recv" /\ FromIpld(call.ipld)

Epoch == DateTime(0, 0)

Init ==
  /\ obj = NoObject
  /\ clock \in DateTimes
  /\ origin = "none"
  /\ skewed = FALSE
  /\ call = NoCall

Next == Default \/ Update \/ ToIpld \/ Decode \/ DecodeForeign

Spec == Init /\ [][Next]_vars

(* the codec as a pure function: any Object to encode, any value to decode *)
CodecInit ==
  /\ clock = Epoch
  /\ skewed = FALSE
  /\ \/ obj \in AllObjects /\ origin = "from_ipld" /\ call = NoCall
     \/ /\ obj = NoObject
        /\ origin = "none"
        /\ \E ipld \in WireInputs : call = [name |-> "recv", ipld |-> ipld]

CodecNext == ToIpld \/ Decode \/ DecodeReceived

SpecCodec == CodecInit /\ [][CodecNext]_vars

(***************************************************************************)
(* Properties                                                              *)
(***************************************************************************)
Order ==
  <<OBJECT_CREATED_AT_LABEL, OBJECT_UPDATED_AT_LABEL, OBJECT_DATA_LABEL, OBJECT_METADATA_LABEL>>
ExpectedKind ==
  [k \in Labels |->
     CASE k = OBJECT_CREATED_AT_LABEL -> "Integer"
       [] k = OBJECT_UPDATED_AT_LABEL -> "Integer"
       [] k = OBJECT_DATA_LABEL -> "Link"
       [] k = OBJECT_METADATA_LABEL -> "String"]

(* the key is absent from the map or holds a value of another wire type *)
BadField(map, k) == k \notin DOMAIN map \/ map[k].kind # ExpectedKind[k]
WellTyped(ipld) == ipld.kind = "Map" /\ \A k \in Labels : ~BadField(ipld.map, k)
InRange(n) == MinNanos <= n /\ n <= MaxNanos
(* the key holds an integer outside the range of OffsetDateTime *)
OutOfRange(map, k) ==
  /\ k \in {OBJECT_CREATED_AT_LABEL, OBJECT_UPDATED_AT_LABEL}
  /\ ~BadField(map, k)
  /\ ~InRange(map[k].int)
Decoded == call.name = "from_ipld"
Nanos(dt) == dt.secs * NanosPerSecond + dt.nanosecond

MissingFieldAlwaysNamed ==
  Decoded =>
    /\ call.ipld.kind # "Map" => call.ret = Err(NotMap)
    /\ call.ipld.kind = "Map" =>
         \A k \in Labels :
           (BadField(call.ipld.map, k) /\ \A j \in Labels \ {k} : ~BadField(call.ipld.map, j))
             => call.ret = Err(MissingMapMember(k))

(* C2 amended: a non-map fails with NotMap; a map with a required key      *)
(* absent or of the wrong wire type always fails and yields no Object; the *)
(* error names the first such key in the order created_at, updated_at,     *)
(* data, metadata, unless a timestamp key before it holds an out-of-range  *)
(* integer, and then the error is InvalidDateTime.                         *)
FirstBadIndex(map) == CHOOSE i \in 1..4 :
  BadField(map, Order[i]) /\ \A j \in 1..(i - 1) : ~BadField(map, Order[j])

MissingFieldOrEarlierDateTime ==
  Decoded =>
    /\ call.ipld.kind # "Map" => call.ret = Err(NotMap) /\ obj = NoObject
    /\ (call.ipld.kind = "Map" /\ \E k \in Labels : BadField(call.ipld.map, k)) =>
         LET map == call.ipld.map
             i == FirstBadIndex(map)
         IN /\ obj = NoObject
            /\ call.ret =
                 IF \E j \in 1..(i - 1) : OutOfRange(map, Order[j])
                 THEN Err(InvalidDateTime)
                 ELSE Err(MissingMapMember(Order[i]))

MissingFieldWitness ==
  /\ Decoded /\ call.ipld.kind = "Map"
  /\ OBJECT_DATA_LABEL \notin DOMAIN call.ipld.map
  /\ \A k \in Labels \ {OBJECT_DATA_LABEL} : ~BadField(call.ipld.map, k)
  /\ OutOfRange(call.ipld.map, OBJECT_CREATED_AT_LABEL)
  /\ call.ret = Err(InvalidDateTime)

(* C3 as stated: a map with any key besides the four required ones is      *)
(* rejected.                                                               *)
ExtraKeysRejected ==
  (Decoded /\ call.ipld.kind = "Map" /\ ~(DOMAIN call.ipld.map \subseteq Labels))
    => ~call.ret.ok

(* C3 amended: keys besides the four required ones are ignored: the map    *)
(* decodes exactly as the map without them, so four valid entries plus     *)
(* additional keys decode into an Object; a map is rejected only for a     *)
(* defect in one of the four required entries.                             *)
Restrict(map, S) == [k \in DOMAIN map \cap S |-> map[k]]

ExtraKeysIgnored ==
  (Decoded /\ call.ipld.kind = "Map") =>
    LET map == call.ipld.map
    IN /\ call.ret = from_ipld(IpldMap(Restrict(map, Labels)))
       /\ ~call.ret.ok =>
            \/ \E k \in Labels : BadField(map, k)
            \/ OutOfRange(map, OBJECT_CREATED_AT_LABEL)
            \/ OutOfRange(map, OBJECT_UPDATED_AT_LABEL)
            \/ ~from_str(map[OBJECT_METADATA_LABEL].str).ok

ExtraKeysWitness ==
  /\ Decoded /\ call.ipld.kind = "Map"
  /\ DOMAIN call.ipld.map = Labels \cup {EXTRA_LABEL}
  /\ call.ret.ok /\ obj = call.ret.obj
  /\ obj.metadata = Array(<<Null, String(<<QUOTE>>)>>)

(* C4: for a map holding the four required keys with the expected wire     *)
(* types, from_ipld fails with InvalidDateTime if a timestamp integer is   *)
(* out of range, otherwise with SerdeJson if the metadata text does not    *)
(* parse, and otherwise returns an Object holding exactly the decoded      *)
(* values; on a failure there is no Object.                                *)
DecodeWellTyped ==
  (Decoded /\ WellTyped(call.ipld)) =>
    LET map == call.ipld.map
        c == map[OBJECT_CREATED_AT_LABEL].int
        u == map[OBJECT_UPDATED_AT_LABEL].int
        text == map[OBJECT_METADATA_LABEL].str
    IN IF ~InRange(c) \/ ~InRange(u)
       THEN call.ret = Err(InvalidDateTime) /\ obj = NoObject
       ELSE IF ~from_str(text).ok
       THEN call.ret = Err(SerdeJson) /\ obj = NoObject
       ELSE /\ call.ret.ok /\ obj = call.ret.obj
            /\ Nanos(obj.created_at) = c /\ obj.created_at.nanosecond \in 0..(NanosPerSecond - 1)
            /\ Nanos(obj.updated_at) = u /\ obj.updated_at.nanosecond \in 0..(NanosPerSecond - 1)
            /\ obj.data = map[OBJECT_DATA_LABEL].cid
            /\ obj.metadata = from_str(text).val

DecodeWellTypedWitness ==
  /\ Decoded /\ WellTyped(call.ipld)
  /\ InRange(call.ipld.map[OBJECT_CREATED_AT_LABEL].int)
  /\ call.ipld.map[OBJECT_UPDATED_AT_LABEL].int = MaxNanos
  /\ call.ipld.map[OBJECT_METADATA_LABEL].str = <<"{", "n", "o", "t", " ", "j", "s", "o", "n">>
  /\ call.ret = Err(SerdeJson)

(* C5 as stated, granted a clock that never reads earlier than before:     *)
(* update never lowers updated_at and leaves created_at alone.             *)
UpdateNeverLowersUpdatedAt ==
  [][(call'.name = "update" /\ ~skewed')
       => (DtLeq(obj.updated_at, obj'.updated_at) /\ obj'.created_at = obj.created_at)]_vars

(* C5 amended: update leaves created_at alone and sets updated_at to the   *)
(* clock reading it takes; updated_at does not go down for an Object built *)
(* by default() while the clock never reads earlier than before (an Object *)
(* decoded with an updated_at ahead of the clock gets a lower one).        *)
UpdateTimestamps ==
  [][call'.name = "update"
       => /\ obj'.created_at = obj.created_at
          /\ obj'.updated_at = clock'
          /\ (origin = "default" /\ ~skewed') => DtLeq(obj.updated_at, obj'.updated_at)]_vars

UpdateTimestampsWitness ==
  /\ call.name = "update" /\ call.data # None
  /\ origin = "default" /\ ~skewed
  /\ DtLess(obj.created_at, obj.updated_at)

(* C6: update replaces data and metadata exactly where the argument is     *)
(* present and leaves the other of the two, and created_at, unchanged.     *)
SelectiveUpdate ==
  [][call'.name = "update"
       => /\ obj'.data = (IF call'.data = None THEN obj.data ELSE call'.data.some)
          /\ obj'.metadata =
               (IF call'.metadata = None THEN obj.metadata ELSE call'.metadata.some)
          /\ obj'.created_at = obj.created_at]_vars

SelectiveUpdateWitness ==
  /\ call.name = "update" /\ call.data = None /\ call.metadata = Some(String(<<"a", QUOTE>>))
  /\ obj.data = "cid_b" /\ obj.metadata = String(<<"a", QUOTE>>)

(* C7: default() returns created_at equal to updated_at, the default Cid   *)
(* and Null metadata (granted a clock that does not read backwards).       *)
DefaultTimestampsEqual ==
  (call.name = "default" /\ ~skewed) =>
    /\ obj.created_at = obj.updated_at
    /\ obj.data = DefaultCid
    /\ obj.metadata = Null

(* C8: to_ipld returns a map with exactly the four keys: the timestamps as *)
(* integer nanoseconds since the epoch, data as a link, metadata as the    *)
(* string of its JSON text; the Object is not modified.                    *)
EncodeShape ==
  [][call'.name = "to_ipld"
       => LET w == call'.ret
          IN /\ obj' = obj
             /\ w.kind = "Map" /\ DOMAIN w.map = Labels /\ Cardinality(Labels) = 4
             /\ w.map[OBJECT_CREATED_AT_LABEL] = IpldInteger(Nanos(obj.created_at))
             /\ w.map[OBJECT_UPDATED_AT_LABEL] = IpldInteger(Nanos(obj.updated_at))
             /\ w.map[OBJECT_DATA_LABEL] = IpldLink(obj.data)
             /\ w.map[OBJECT_METADATA_LABEL] = IpldString(to_string(obj.metadata))]_vars

EncodeShapeWitness ==
  /\ call.name = "to_ipld"
  /\ obj.created_at # obj.updated_at
  /\ call.ret.map[OBJECT_UPDATED_AT_LABEL].int = MinNanos
  /\ call.ret.map[OBJECT_METADATA_LABEL].str = <<"[", "-", "1", ",", QUOTE, BACKSLASH, QUOTE, QUOTE, "]">>

(* C9 as stated, granted a clock that never reads earlier than before:     *)
(* every Object has updated_at >= created_at.                              *)
UpdatedNeverBeforeCreated ==
  (obj # NoObject /\ ~skewed) => DtLeq(obj.created_at, obj.updated_at)

(* C9 amended: updated_at >= created_at holds for an Object built by       *)
(* default() and after any updates of it, while the clock never reads      *)
(* earlier than before; from_ipld returns the two timestamps of the map    *)
(* without comparing them.                                                 *)
UpdatedNotBeforeCreated ==
  /\ (obj # NoObject /\ origin = "default" /\ ~skewed)
       => DtLeq(obj.created_at, obj.updated_at)
  /\ (Decoded /\ call.ret.ok)
       => /\ Nanos(obj.created_at) = call.ipld.map[OBJECT_CREATED_AT_LABEL].int
          /\ Nanos(obj.updated_at) = call.ipld.map[OBJECT_UPDATED_AT_LABEL].int

UpdatedNotBeforeCreatedWitness ==
  /\ call.name = "update" /\ call.metadata # None
  /\ origin = "default" /\ ~skewed
  /\ obj.created_at = obj.updated_at

(* C10 as stated: a map with an out-of-range timestamp integer and a       *)
(* missing or wrongly typed required key fails with MissingMapMember.      *)
TypesBeforeRanges ==
  (Decoded /\ call.ipld.kind = "Map"
     /\ (\E k \in Labels : BadField(call.ipld.map, k))
     /\ (\E k \in Labels : OutOfRange(call.ipld.map, k)))
    => (~call.ret.ok /\ call.ret.err.e = "MissingMapMember")

(* C10 amended: from_ipld reports the first failure in this order: not a   *)
(* map; created_at absent or not an integer; created_at out of range;      *)
(* updated_at absent or not an integer; updated_at out of range; data      *)
(* absent or not a link; metadata absent or not a string; metadata text    *)
(* not parseable.                                                          *)
CheckErr ==
  <<NotMap, MissingMapMember(Order[1]), InvalidDateTime, MissingMapMember(Order[2]),
    InvalidDateTime, MissingMapMember(Order[3]), MissingMapMember(Order[4]), SerdeJson>>

CheckFails(ipld, i) ==
  CASE i = 1 -> ipld.kind # "Map"
    [] i = 2 -> BadField(ipld.map, Order[1])
    [] i = 3 -> OutOfRange(ipld.map, Order[1])
    [] i = 4 -> BadField(ipld.map, Order[2])
    [] i = 5 -> OutOfRange(ipld.map, Order[2])
    [] i = 6 -> BadField(ipld.map, Order[3])
    [] i = 7 -> BadField(ipld.map, Order[4])
    [] i = 8 -> ~from_str(ipld.map[Order[4]].str).ok

RECURSIVE FirstFailure(_, _)
FirstFailure(ipld, i) ==
  IF i > 8 THEN 0
  ELSE IF CheckFails(ipld, i) THEN i
  ELSE FirstFailure(ipld, i + 1)

FirstViolationWins ==
  Decoded =>
    LET i == FirstFailure(call.ipld, 1)
    IN IF i = 0 THEN call.ret.ok ELSE call.ret = Err(CheckErr[i])

FirstViolationWitness ==
  /\ Decoded /\ call.ipld.kind = "Map"
  /\ ~BadField(call.ipld.map, OBJECT_CREATED_AT_LABEL)
  /\ ~OutOfRange(call.ipld.map, OBJECT_CREATED_AT_LABEL)
  /\ OutOfRange(call.ipld.map, OBJECT_UPDATED_AT_LABEL)
  /\ BadField(call.ipld.map, OBJECT_METADATA_LABEL)
  /\ call.ret = Err(InvalidDateTime)

====
